---- MODULE Spec2Model ----
(***************************************************************************)
(* Kite installer dialog (spyder/plugins/completion/kite/widgets/install.py) *)
(* as a state machine: the three screens of KiteInstallerDialog, the       *)
(* QDialog visibility and result, the configuration flag, the progress     *)
(* widgets, the installation thread the dialog drives, the queued          *)
(* notifications of that thread and the modal message boxes whose nested   *)
(* event loops let notifications interleave with a blocked handler.        *)
(***************************************************************************)
EXTENDS Integers, Sequences, FiniteSets, TLC

\* ---- bounds ----
\* queued worker notifications not yet delivered to the GUI thread
MaxInbox == 1
\* modal message boxes open at once (nested exec_ loops)
MaxModals == 2
\* total carried by the download-progress notifications
MaxTotal == 1

\* ---- status texts (spyder.plugins.completion.kite.utils.install) ----
NO_STATUS == "No status"
INSTALLING == "Installing"
FINISHED == "Finished"
ERRORED == "Errored"
CANCELLED == "Cancelled"
Statuses == {NO_STATUS, INSTALLING, FINISHED, ERRORED, CANCELLED}

Screens == {"integration", "welcome", "installation"}
\* (current_value, total) pairs of a download-progress notification: the
\* total is the size of the download, the current value runs up to it
Progress == {<<c, MaxTotal>> : c \in 0..MaxTotal}

VARIABLES
  hidden,          \* hidden[w]: widget w of the dialog was hidden explicitly (QWidget.isHidden)
  cancel_hidden,   \* the cancel button next to the progress bar is hidden
  dialogVisible,   \* the dialog window is on screen
  result,          \* "none" until QDialog.done ran, then "Accepted" or "Rejected"
  conf_enabled,    \* CONF ('kite', 'installation/enabled')
  progress_label,  \* text of KiteInstallation._progress_label
  progress_bar,    \* [max, value] of KiteInstallation._progress_bar (minimum stays 0)
  thread,          \* the installation thread: status, cancelled, running, quit, installs
  inbox,           \* notifications emitted by the thread, queued for the GUI thread
  modals,          \* stack of open modal boxes, top last: "confirm" or "error"
  last             \* the handler that ran in the last step: its name, its input, the QDialog
                   \* slot it called and its return value

vars == <<hidden, cancel_hidden, dialogVisible, result, conf_enabled,
          progress_label, progress_bar, thread, inbox, modals, last>>

widgetVars == <<hidden, cancel_hidden, progress_label, progress_bar>>

Op(op, arg, call, ret) == [op |-> op, arg |-> arg, call |-> call, ret |-> ret]

\* QWidget.isVisible: the widget is not hidden and its window is shown
isVisible(w) == dialogVisible /\ ~hidden[w]

\* ---- QDialog slots used by the handlers ----
QDialog_accept(op, arg) ==
  /\ dialogVisible' = FALSE
  /\ result' = "Accepted"
  /\ last' = Op(op, arg, "accept", "none")

QDialog_reject(op, arg) ==
  /\ dialogVisible' = FALSE
  /\ result' = "Rejected"
  /\ last' = Op(op, arg, "reject", "none")

QDialog_hide(op, arg, ret) ==
  /\ dialogVisible' = FALSE
  /\ result' = result
  /\ last' = Op(op, arg, "hide", ret)

NoClose(op, arg, ret) ==
  /\ UNCHANGED <<dialogVisible, result>>
  /\ last' = Op(op, arg, "none", ret)

\* ---- the installation thread (external worker) ----
thread_install == [thread EXCEPT !.running = TRUE, !.installs = @ + 1]

Init ==
  /\ hidden = [w \in Screens |-> w # "integration"]
  /\ cancel_hidden = TRUE
  /\ dialogVisible = FALSE
  /\ result = "none"
  /\ conf_enabled = TRUE
  /\ progress_label = "Downloading"
  /\ progress_bar = [max |-> 100, value |-> -1]
  /\ thread = [status |-> NO_STATUS, cancelled |-> FALSE, running |-> FALSE,
               quit |-> FALSE, installs |-> 0]
  /\ inbox = <<>>
  /\ modals = <<>>
  /\ last = Op("init", "none", "none", "none")

\* ---- KiteInstallerDialog handlers ----
\* welcome() that forgets to hide the integration widget
welcome_KeepIntegration ==
  /\ hidden' = [hidden EXCEPT !["installation"] = TRUE,
                              !["welcome"] = FALSE]
  /\ NoClose("welcome", "none", "none")
  /\ UNCHANGED <<cancel_hidden, conf_enabled, progress_label, progress_bar,
                 thread, inbox, modals>>

welcome ==
  /\ hidden' = [hidden EXCEPT !["integration"] = TRUE,
                              !["installation"] = TRUE,
                              !["welcome"] = FALSE]
  /\ NoClose("welcome", "none", "none")
  /\ UNCHANGED <<cancel_hidden, conf_enabled, progress_label, progress_bar,
                 thread, inbox, modals>>

\* install() that never starts the installation thread
install_NoStart ==
  /\ hidden' = [hidden EXCEPT !["welcome"] = TRUE,
                              !["integration"] = TRUE,
                              !["installation"] = FALSE]
  /\ NoClose("install", "none", "none")
  /\ UNCHANGED <<cancel_hidden, conf_enabled, progress_label, progress_bar,
                 thread, inbox, modals>>

\* install() that forgets to hide the welcome widget
install_KeepWelcome ==
  /\ hidden' = [hidden EXCEPT !["integration"] = TRUE,
                              !["installation"] = FALSE]
  /\ thread' = thread_install
  /\ NoClose("install", "none", "none")
  /\ UNCHANGED <<cancel_hidden, conf_enabled, progress_label, progress_bar,
                 inbox, modals>>

\* install() that forgets to hide the integration widget
install_KeepIntegration ==
  /\ hidden' = [hidden EXCEPT !["welcome"] = TRUE,
                              !["installation"] = FALSE]
  /\ thread' = thread_install
  /\ NoClose("install", "none", "none")
  /\ UNCHANGED <<cancel_hidden, conf_enabled, progress_label, progress_bar,
                 inbox, modals>>

install ==
  /\ hidden' = [hidden EXCEPT !["welcome"] = TRUE,
                              !["integration"] = TRUE,
                              !["installation"] = FALSE]
  /\ thread' = thread_install
  /\ NoClose("install", "none", "none")
  /\ UNCHANGED <<cancel_hidden, conf_enabled, progress_label, progress_bar,
                 inbox, modals>>

\* reject() whose dismissal branch leaves the configuration flag alone
reject_KeepConf ==
  /\ IF isVisible("installation")
       THEN /\ QDialog_hide("reject", "none", "none")
            /\ conf_enabled' = conf_enabled
       ELSE /\ conf_enabled' = conf_enabled
            /\ QDialog_reject("reject", "none")
  /\ UNCHANGED <<widgetVars, thread, inbox, modals>>

\* reject() without the test of the installation widget
reject_NoBranch ==
  /\ conf_enabled' = FALSE
  /\ QDialog_reject("reject", "none")
  /\ UNCHANGED <<widgetVars, thread, inbox, modals>>

reject ==
  /\ IF isVisible("installation")
       THEN /\ QDialog_hide("reject", "none", "none")
            /\ conf_enabled' = conf_enabled
       ELSE /\ conf_enabled' = FALSE
            /\ QDialog_reject("reject", "none")
  /\ UNCHANGED <<widgetVars, thread, inbox, modals>>

\* close_installer() that does not treat CANCELLED as a final status
close_installer_NoCancelled ==
  /\ IF \/ thread.status = ERRORED
        \/ thread.status = FINISHED
       THEN QDialog_accept("close_installer", "none")
       ELSE QDialog_hide("close_installer", "none", "none")
  /\ UNCHANGED <<widgetVars, conf_enabled, thread, inbox, modals>>

close_installer ==
  /\ IF \/ thread.status = ERRORED
        \/ thread.status = FINISHED
        \/ thread.status = CANCELLED
       THEN QDialog_accept("close_installer", "none")
       ELSE QDialog_hide("close_installer", "none", "none")
  /\ UNCHANGED <<widgetVars, conf_enabled, thread, inbox, modals>>

\* cancel_install up to the blocking QMessageBox.critical
cancel_install_ask ==
  /\ modals' = Append(modals, "confirm")
  /\ NoClose("cancel_install_ask", "none", "none")
  /\ UNCHANGED <<widgetVars, conf_enabled, thread, inbox>>

\* cancel_install that does not ask the thread whether it is running
cancel_install_IgnoreRunning(reply) ==
  /\ modals' = SubSeq(modals, 1, Len(modals) - 1)
  /\ IF reply = "Yes"
       THEN /\ thread' = [thread EXCEPT !.cancelled = TRUE, !.quit = TRUE]
            /\ QDialog_hide("cancel_install", reply, "True")
       ELSE /\ thread' = thread
            /\ NoClose("cancel_install", reply, "False")
  /\ UNCHANGED <<widgetVars, conf_enabled, inbox>>

\* cancel_install from the reply of the message box to its return
cancel_install(reply) ==
  /\ modals' = SubSeq(modals, 1, Len(modals) - 1)
  /\ IF reply = "Yes" /\ thread.running
       THEN /\ thread' = [thread EXCEPT !.cancelled = TRUE, !.quit = TRUE]
            /\ QDialog_hide("cancel_install", reply, "True")
       ELSE /\ thread' = thread
            /\ NoClose("cancel_install", reply, "False")
  /\ UNCHANGED <<widgetVars, conf_enabled, inbox>>

\* finished_installation that accepts on every final status
finished_installation_AnyFinal(status) ==
  IF status \in {FINISHED, ERRORED, CANCELLED}
    THEN QDialog_accept("status", status)
    ELSE NoClose("status", status, "none")

finished_installation(status) ==
  IF status = FINISHED
    THEN QDialog_accept("status", status)
    ELSE NoClose("status", status, "none")

\* QProgressBar.setRange(0, maximum) followed by reset() when the value left the range
setRange(bar, maximum) ==
  IF maximum = bar.max THEN bar
  ELSE [max |-> maximum,
        value |-> IF bar.value > maximum THEN -1 ELSE bar.value]

\* QProgressBar.setValue: ignored when out of a determinate range
setValue(bar, value) ==
  IF (value > bar.max \/ value < 0) /\ bar.max # 0 THEN bar
  ELSE [bar EXCEPT !.value = value]

update_installation_status(status) ==
  /\ progress_label' = status
  /\ progress_bar' = IF status = INSTALLING THEN setRange(progress_bar, 0)
                     ELSE progress_bar

update_installation_progress(current_value, total) ==
  /\ progress_bar' = setValue(setRange(progress_bar, total), current_value)
  /\ progress_label' = progress_label

\* _handle_error_msg up to the blocking error_message_dialog.exec_()
handle_error_msg_exec ==
  /\ modals' = Append(modals, "error")
  /\ NoClose("error_exec", "none", "none")

\* _handle_error_msg that only hides the dialog after the message box
handle_error_msg_accept_Hide ==
  /\ modals' = SubSeq(modals, 1, Len(modals) - 1)
  /\ QDialog_hide("error", "none", "none")
  /\ UNCHANGED <<widgetVars, conf_enabled, thread, inbox>>

\* _handle_error_msg after exec_() returned
handle_error_msg_accept ==
  /\ modals' = SubSeq(modals, 1, Len(modals) - 1)
  /\ QDialog_accept("error", "none")
  /\ UNCHANGED <<widgetVars, conf_enabled, thread, inbox>>

\* ---- user and host events ----
Interactive == dialogVisible /\ modals = <<>>

HostShow ==
  /\ ~dialogVisible /\ modals = <<>>
  /\ dialogVisible' = TRUE
  /\ last' = Op("show", "none", "none", "none")
  /\ UNCHANGED <<widgetVars, result, conf_enabled, thread, inbox, modals>>

ClickLearnMore == Interactive /\ isVisible("integration") /\ welcome

ClickInstall(w) == Interactive /\ isVisible(w) /\ install

ClickDismiss(w) == Interactive /\ isVisible(w) /\ reject

EscapeOrClose == Interactive /\ reject

ClickOk == Interactive /\ isVisible("installation") /\ close_installer

\* HoverEnter / HoverLeave on the progress bar show / hide the cancel button
Hover(enter) ==
  /\ Interactive /\ isVisible("installation")
  /\ cancel_hidden' = ~enter
  /\ last' = Op("hover", "none", "none", "none")
  /\ UNCHANGED <<hidden, dialogVisible, result, conf_enabled, progress_label,
                 progress_bar, thread, inbox, modals>>

ClickCancel ==
  /\ Interactive /\ isVisible("installation") /\ ~cancel_hidden
  /\ Len(modals) < MaxModals
  /\ cancel_install_ask

ReplyConfirm ==
  /\ modals # <<>> /\ modals[Len(modals)] = "confirm"
  /\ \E reply \in {"Yes", "No"} : cancel_install(reply)

CloseErrorBox ==
  /\ modals # <<>> /\ modals[Len(modals)] = "error"
  /\ handle_error_msg_accept

\* ---- the worker emits, the GUI thread delivers ----
Emit(msg) ==
  /\ thread.running
  /\ Len(inbox) < MaxInbox
  /\ inbox' = Append(inbox, msg)
  /\ last' = Op("worker", "none", "none", "none")
  /\ UNCHANGED <<widgetVars, dialogVisible, result, conf_enabled, modals>>

WorkerStatus ==
  \E s \in Statuses :
    /\ Emit([sig |-> "status", arg |-> s])
    /\ thread' = [thread EXCEPT !.status = s]

WorkerError == Emit([sig |-> "error", arg |-> ERRORED]) /\ thread' = thread

WorkerProgress ==
  \E p \in Progress : Emit([sig |-> "progress", arg |-> p]) /\ thread' = thread

WorkerStop ==
  /\ thread.running
  /\ thread' = [thread EXCEPT !.running = FALSE]
  /\ last' = Op("worker", "none", "none", "none")
  /\ UNCHANGED <<widgetVars, dialogVisible, result, conf_enabled, inbox, modals>>

DeliverStatus ==
  /\ inbox # <<>> /\ Head(inbox).sig = "status"
  /\ inbox' = Tail(inbox)
  /\ update_installation_status(Head(inbox).arg)
  /\ finished_installation(Head(inbox).arg)
  /\ UNCHANGED <<hidden, cancel_hidden, conf_enabled, thread, modals>>

DeliverProgress ==
  /\ inbox # <<>> /\ Head(inbox).sig = "progress"
  /\ inbox' = Tail(inbox)
  /\ update_installation_progress(Head(inbox).arg[1], Head(inbox).arg[2])
  /\ NoClose("progress", "none", "none")
  /\ UNCHANGED <<hidden, cancel_hidden, conf_enabled, thread, modals>>

DeliverError ==
  /\ inbox # <<>> /\ Head(inbox).sig = "error"
  /\ Len(modals) < MaxModals
  /\ inbox' = Tail(inbox)
  /\ handle_error_msg_exec
  /\ UNCHANGED <<widgetVars, conf_enabled, thread>>

Next ==
  \/ HostShow
  \/ ClickLearnMore
  \/ \E w \in {"integration", "welcome"} : ClickInstall(w)
  \/ \E w \in {"integration", "welcome"} : ClickDismiss(w)
  \/ EscapeOrClose
  \/ ClickOk
  \/ Hover(TRUE)
  \/ Hover(FALSE)
  \/ ClickCancel
  \/ ReplyConfirm
  \/ CloseErrorBox
  \/ WorkerStatus
  \/ WorkerError
  \/ WorkerProgress
  \/ WorkerStop
  \/ DeliverStatus
  \/ DeliverProgress
  \/ DeliverError

Spec == Init /\ [][Next]_vars

FinalStatuses == {FINISHED, ERRORED, CANCELLED}

\* C1: a step of install(), taken from the info or the welcome screen, leaves
\* the info and welcome screens hidden and the installation screen visible,
\* and calls the thread's install() exactly once.
C1_InstallShowsInstallation ==
  [][last'.op = "install" =>
       /\ isVisible("integration") \/ isVisible("welcome")
       /\ hidden'["integration"] /\ hidden'["welcome"]
       /\ isVisible("installation")'
       /\ thread'.installs = thread.installs + 1
       /\ thread'.running]_vars

C1_Witness ==
  /\ last.op = "install"
  /\ isVisible("installation")
  /\ hidden["integration"] /\ hidden["welcome"]
  /\ thread.installs = 1

\* C2: close_installer accepts the dialog when the thread's status is
\* finished, errored or cancelled at that moment; for every other status it
\* only hides the dialog and leaves its result alone. It never writes the
\* thread.
C2_CloseInstaller ==
  [][last'.op = "close_installer" =>
       /\ thread' = thread
       /\ ~dialogVisible'
       /\ IF thread.status \in FinalStatuses
            THEN last'.call = "accept" /\ result' = "Accepted"
            ELSE last'.call = "hide" /\ result' = result]_vars

C2_Witness ==
  /\ last.op = "close_installer"
  /\ last.call = "accept"
  /\ result = "Accepted"
  /\ thread.status = CANCELLED

\* C3: reject while the info or the welcome screen is showing clears the
\* configuration flag and ends in the rejected state.
C3_DismissClearsFlag ==
  [][(last'.op = "reject" /\ (isVisible("integration") \/ isVisible("welcome"))) =>
       /\ conf_enabled' = FALSE
       /\ result' = "Rejected"
       /\ last'.call = "reject"
       /\ ~dialogVisible']_vars

C3_Witness ==
  /\ last.op = "reject"
  /\ last.call = "reject"
  /\ ~hidden["welcome"]
  /\ result = "Rejected"
  /\ ~conf_enabled

\* C4: an error notification opens the error message box; when that box is
\* closed the dialog is accepted whatever the screen, the visibility, the
\* thread's status and its cancelled flag are, and neither step calls the
\* thread's install().
C4_ErrorAccepts ==
  [][/\ (inbox # <<>> /\ Head(inbox).sig = "error" /\ inbox' = Tail(inbox)) =>
          /\ modals' = Append(modals, "error")
          /\ thread' = thread
     /\ (modals # <<>> /\ modals[Len(modals)] = "error" /\ Len(modals') < Len(modals)) =>
          /\ last'.call = "accept"
          /\ result' = "Accepted"
          /\ ~dialogVisible'
          /\ thread' = thread]_vars

C4_Witness ==
  /\ last.op = "error"
  /\ result = "Accepted"
  /\ thread.cancelled
  /\ thread.status = INSTALLING
  /\ thread.installs = 1

\* C5: cancel_install cancels exactly when the reply is Yes and the thread is
\* running: it then sets the cancelled flag, asks the thread to quit, hides
\* the dialog without accepting or rejecting it and returns True, the thread
\* still running and its status untouched. Otherwise it returns False and
\* leaves the thread and the dialog as they were.
C5_CancelInstall ==
  [][last'.op = "cancel_install" =>
       IF last'.arg = "Yes" /\ thread.running
         THEN /\ thread' = [thread EXCEPT !.cancelled = TRUE, !.quit = TRUE]
              /\ ~dialogVisible'
              /\ last'.call = "hide"
              /\ result' = result
              /\ last'.ret = "True"
         ELSE /\ thread' = thread
              /\ dialogVisible' = dialogVisible
              /\ last'.call = "none"
              /\ result' = result
              /\ last'.ret = "False"]_vars

C5_Witness ==
  /\ last.op = "cancel_install"
  /\ last.ret = "True"
  /\ thread.cancelled /\ thread.quit
  /\ thread.running
  /\ thread.status # CANCELLED
  /\ result = "none"

\* C6: the screens only move forward: once the welcome screen shows, the info
\* screen stays hidden; once the installation screen shows, it stays shown and
\* the info and welcome screens stay hidden.
C6_ForwardOnly ==
  [][/\ ~hidden["welcome"] => hidden'["integration"]
     /\ ~hidden["installation"] =>
          /\ ~hidden'["installation"]
          /\ hidden'["integration"]
          /\ hidden'["welcome"]]_vars

C6_Witness ==
  /\ last.op = "show"
  /\ isVisible("installation")
  /\ hidden["integration"] /\ hidden["welcome"]
  /\ result = "Accepted"

\* C7: a status notification accepts the dialog if and only if it carries
\* FINISHED; any other status leaves the result and the visibility alone. The
\* progress label takes the status text and INSTALLING makes the progress bar
\* indeterminate.
C7_StatusAcceptsOnlyFinished ==
  [][last'.op = "status" =>
       /\ last'.arg = Head(inbox).arg
       /\ progress_label' = last'.arg
       /\ (last'.call = "accept") <=> (last'.arg = FINISHED)
       /\ last'.arg = FINISHED => result' = "Accepted" /\ ~dialogVisible'
       /\ last'.arg # FINISHED =>
            /\ last'.call = "none"
            /\ result' = result
            /\ dialogVisible' = dialogVisible
       /\ last'.arg = INSTALLING => progress_bar'.max = 0
       /\ last'.arg # INSTALLING => progress_bar' = progress_bar]_vars

C7_Witness ==
  /\ last.op = "status"
  /\ last.arg = ERRORED
  /\ progress_label = ERRORED
  /\ dialogVisible
  /\ result = "none"

\* C8: reject while the installation screen is visible only hides the dialog:
\* the configuration flag, the dialog's result and the thread are unchanged.
C8_RejectOnInstallationHides ==
  [][(last'.op = "reject" /\ isVisible("installation")) =>
       /\ ~dialogVisible'
       /\ last'.call = "hide"
       /\ result' = result
       /\ conf_enabled' = conf_enabled
       /\ thread' = thread]_vars

C8_Witness ==
  /\ last.op = "reject"
  /\ last.call = "hide"
  /\ ~hidden["installation"]
  /\ conf_enabled
  /\ result = "none"
  /\ thread.running /\ ~thread.cancelled

\* C9: exactly one of the three screens is not hidden, and after construction
\* it is the info screen.
C9_OneScreenShown ==
  /\ Cardinality({w \in Screens : ~hidden[w]}) = 1
  /\ last.op = "init" => ~hidden["integration"]

C9_Witness ==
  /\ last.op = "welcome"
  /\ ~hidden["welcome"]
  /\ hidden["integration"] /\ hidden["installation"]

\* C10: the dialog calls the thread's install() at most once.
C10_InstallAtMostOnce == thread.installs <= 1

C10_Witness ==
  /\ thread.installs = 1
  /\ last.op = "cancel_install"
  /\ last.arg = "No"
  /\ dialogVisible
====
